---- MODULE Spec2Model ----
(***************************************************************************)
(* Real-time log fan-out of src/src/main.py: QueueLogHandler.emit filters  *)
(* formatted log lines into log_queue, log_broadcaster drains the queue    *)
(* and sends every entry to the websockets in active_connections, and      *)
(* websocket_endpoint registers and deregisters the websockets.            *)
(*                                                                         *)
(* Everything runs on one asyncio event loop: a step of a coroutine        *)
(* between two awaits is atomic, and is one action here.                   *)
(*                                                                         *)
(* A log line is a sequence of text fragments; the fragments are cut so    *)
(* that every marker the filter looks for is a run of whole fragments, and *)
(* Python's `marker in log_entry` is the search for that run.              *)
(***************************************************************************)
EXTENDS Integers, Sequences, FiniteSets, TLC

\* ------------------------------------------------------------------ bounds
\* Number of websocket connections that are ever opened.
MaxConns == 2
\* Number of emit calls after application startup (all producers together).
MaxEmits == 3
\* Number of unexpected exceptions raised inside the broadcaster's try body.
MaxFaults == 1
MaxHandles == 5

WebSockets == 1..MaxConns

\* ------------------------------------------------------- log records, lines
INFO == "INFO"
ERROR == "ERROR"

\* logging.Formatter(..., datefmt=...): the time stamp is one opaque fragment.
asctime == "2024-01-01 12:00:00"

\* '%(asctime)s - %(levelname)s - %(message)s'
format(record) ==
    <<asctime, " - ", record.levelname, " - ">> \o record.msg

\* Python's `sub in s` for strings, on fragment sequences.
Contains(sub, s) ==
    \E i \in 1..(Len(s) - Len(sub) + 1) : SubSeq(s, i, i + Len(sub) - 1) = sub

\* The markers of the filter rules of emit.
FaviconMarker == <<"favicon.ico">>
ProxyMarker == <<"Gemini proxy request: path=">>
CredExpiredMarker == <<"credentials expired, attempting refresh">>
CredRefreshedMarker == <<"credentials refreshed successfully">>
CredConvertedMarker == <<"Converted environment expiry format">>
\* The path of the health_check route as it shows in an access log line.
HealthMarker == <<"GET ", "/health">>

\* The filter without its last rule.
SuppressedWithoutLastRule(log_entry) ==
    \/ Contains(FaviconMarker, log_entry)
    \/ Contains(ProxyMarker, log_entry)
    \/ Contains(CredExpiredMarker, log_entry)
    \/ Contains(CredRefreshedMarker, log_entry)

\* The early returns of emit: TRUE when the line is not forwarded.
Suppressed(log_entry) ==
    \/ Contains(FaviconMarker, log_entry)
    \/ Contains(ProxyMarker, log_entry)
    \/ Contains(CredExpiredMarker, log_entry)
    \/ Contains(CredRefreshedMarker, log_entry)
    \/ Contains(CredConvertedMarker, log_entry)

\* Records the handlers and the broadcaster log themselves.
StartupRecord1 ==
    [levelname |-> INFO,
     msg |-> <<"Application startup complete. Real-time log stream is active.">>]
StartupRecord2 ==
    [levelname |-> INFO,
     msg |-> <<"Visit the root URL '/' in a browser to view logs.">>]
BroadcasterStartedRecord ==
    [levelname |-> INFO, msg |-> <<"Log broadcaster task started.">>]
ConnectedRecord ==
    [levelname |-> INFO, msg |-> <<"A new client connected to the log stream.">>]
DisconnectedRecord ==
    [levelname |-> INFO, msg |-> <<"A client disconnected from the log stream.">>]
BroadcasterErrorRecord(e) ==
    [levelname |-> ERROR, msg |-> <<"Error in log broadcaster: ", e>>]

\* Access log records of uvicorn.access for the routes of the application.
HealthAccessRecord ==
    [levelname |-> INFO,
     msg |-> <<"127.0.0.1:5000 - \"", "GET ", "/health", " HTTP/1.1\" 200 OK">>]
FaviconAccessRecord ==
    [levelname |-> INFO,
     msg |-> <<"127.0.0.1:5000 - \"", "GET ", "/", "favicon.ico",
               " HTTP/1.1\" 404 Not Found">>]
\* Records logged by the routers and the rest of the application.
HelloRecord == [levelname |-> INFO, msg |-> <<"hello">>]
ProxyRecord ==
    [levelname |-> INFO,
     msg |-> <<"Gemini proxy request: path=", "/v1beta/models">>]
CredExpiredRecord ==
    [levelname |-> INFO,
     msg |-> <<"Loaded ", "credentials expired, attempting refresh", "...">>]
CredRefreshedRecord ==
    [levelname |-> INFO,
     msg |-> <<"Loaded ", "credentials refreshed successfully">>]
CredConvertedRecord ==
    [levelname |-> INFO,
     msg |-> <<"Converted environment expiry format", " to ISO">>]

RouterRecords ==
    {HelloRecord, ProxyRecord, CredExpiredRecord, CredRefreshedRecord,
     CredConvertedRecord}

AccessRecords == {FaviconAccessRecord}

\* ------------------------------------------------------------ log_queue
\* log_queue = asyncio.Queue(): maxsize defaults to 0, which asyncio reads
\* as "no limit".
maxsize == 0

\* asyncio.Queue.full
full(q) == maxsize > 0 /\ Len(q) >= maxsize

\* A bounded buffer that makes room by evicting its oldest entry.
put_nowait_evict(q, item) ==
    [queue |-> IF Len(q) >= 2 THEN Append(Tail(q), item) ELSE Append(q, item),
     raised |-> "none"]

\* A put that appends its item twice.
put_nowait_twice(q, item) ==
    [queue |-> Append(Append(q, item), item), raised |-> "none"]

\* log_queue.put_nowait(item): raises QueueFull when full, else appends.
put_nowait(q, item) ==
    IF full(q)
    THEN [queue |-> q, raised |-> "QueueFull"]
    ELSE [queue |-> Append(q, item), raised |-> "none"]

\* A stack instead of a queue: the newest entry comes out first.
get_lifo(q) ==
    [item |-> q[Len(q)], queue |-> SubSeq(q, 1, Len(q) - 1)]

\* log_queue.get() on a non-empty queue: the oldest entry comes out.
get(q) ==
    [item |-> Head(q), queue |-> Tail(q)]

\* QueueLogHandler.emit on queue q; id is the number of this emit call and
\* tags the entry so that equal lines stay distinguishable.
\* outcome: "filtered" (early return), "enqueued", "dropped" (QueueFull
\* swallowed), "raised" (any other exception leaves emit).
emit(q, record, id) ==
    LET log_entry == format(record) IN
    IF Suppressed(log_entry)
    THEN [queue |-> q, outcome |-> "filtered"]
    ELSE LET r == put_nowait(q, [id |-> id, text |-> log_entry]) IN
         IF r.raised = "none" THEN [queue |-> r.queue, outcome |-> "enqueued"]
         ELSE IF r.raised = "QueueFull"
              THEN [queue |-> q, outcome |-> "dropped"]
              ELSE [queue |-> r.queue, outcome |-> "raised"]

\* A drain that keeps the newest entry in the queue for whoever connects
\* next.
DrainKeepsLast(q) ==
    [item |-> q[Len(q)], queue |-> <<q[Len(q)]>>]

\* A turn of the broadcaster's loop that finds no websocket registered does
\* not suspend: get() returns at once on a non-empty queue and gather of no
\* coroutine is already done, so the loop turns until the queue is empty.
\* The result is the last entry taken and the queue left.
RECURSIVE Drain(_)
Drain(q) ==
    LET g == get(q) IN
    IF g.queue = <<>> THEN g ELSE Drain(g.queue)

\* startup_event: create_task only schedules the broadcaster, so the two
\* startup lines are logged first and the broadcaster's own line third.
StartupQueue ==
    LET q1 == emit(<<>>, StartupRecord1, 1).queue
        q2 == emit(q1, StartupRecord2, 2).queue
    IN  emit(q2, BroadcasterStartedRecord, 3).queue

\* ----------------------------------------------------------------- state
VARIABLES
    log_queue,           \* the entries of log_queue, oldest first
    active_connections,  \* the set of registered websockets
    pc,                  \* log_broadcaster: "get", "gather" or "dead"
    cur,                 \* log_entry of log_broadcaster
    send,                \* per websocket, its send_text task of the current pass:
                         \*   "none", "pending", "stalled", "ok", "failed"
    conn,                \* websocket_endpoint per websocket:
                         \*   "Connecting", "Open", "Closed"
    emits,               \* number of emit calls so far
    faults,              \* number of exceptions raised in the broadcaster loop
    missed,              \* the broadcaster is suspended in get() and no put has
                         \*   woken it, although the queue holds an entry
    \* history only
    last_emit,           \* line and outcome of the latest emit call
    snapshot,            \* active_connections as it was at the latest dequeue
    attempts,            \* per websocket, send_text calls made for cur
    lastAttempt,         \* per websocket, id of the latest entry sent to it
    removal              \* the latest active_connections.remove call: its
                         \*   argument (0 before the first) and whether it raised

vars ==
    <<log_queue, active_connections, pc, cur, send, conn, emits, faults,
      missed, last_emit, snapshot, attempts, lastAttempt, removal>>

\* The state when the broadcaster first suspends: it has logged its start
\* and, no websocket being registered yet, drained the three startup lines.
Init ==
    /\ log_queue = Drain(StartupQueue).queue
    /\ active_connections = {}
    /\ pc = "get"
    /\ cur = Drain(StartupQueue).item
    /\ send = [ws \in WebSockets |-> "none"]
    /\ conn = [ws \in WebSockets |-> "Connecting"]
    /\ emits = Len(StartupQueue)
    /\ faults = 0
    /\ missed = FALSE
    /\ removal = [ws |-> 0, raised |-> FALSE]
    /\ last_emit = [text |-> format(BroadcasterStartedRecord),
                    outcome |-> "enqueued"]
    /\ snapshot = {}
    /\ attempts = [ws \in WebSockets |-> 0]
    /\ lastAttempt = [ws \in WebSockets |-> 0]

\* Emit calls are counted from the end of startup.
HasBudget == emits < Len(StartupQueue) + MaxEmits

\* A call logging.info/error(record) on the event loop's thread, with q the
\* queue it finds; put_nowait wakes the broadcaster if it waits in get().
EmitOn(q, record) ==
    LET r == emit(q, record, emits + 1) IN
    /\ log_queue' = r.queue
    /\ emits' = emits + 1
    /\ last_emit' = [text |-> format(record), outcome |-> r.outcome]
    /\ missed' = IF r.outcome = "enqueued" THEN FALSE ELSE missed

\* ------------------------------------------------------------- producers
\* A router or any other part of the application logs a record.
RouterLog(record) ==
    /\ HasBudget
    /\ EmitOn(log_queue, record)
    /\ UNCHANGED <<active_connections, pc, cur, send, conn, faults, snapshot,
                   attempts, lastAttempt, removal>>

\* GET /favicon.ico: uvicorn.access logs the request through the handler.
AccessLog(record) ==
    /\ HasBudget
    /\ EmitOn(log_queue, record)
    /\ UNCHANGED <<active_connections, pc, cur, send, conn, faults, snapshot,
                   attempts, lastAttempt, removal>>

\* GET /health: the route returns its status and uvicorn.access logs the
\* request through the handler.
health_check ==
    /\ HasBudget
    /\ EmitOn(log_queue, HealthAccessRecord)
    /\ UNCHANGED <<active_connections, pc, cur, send, conn, faults, snapshot,
                   attempts, lastAttempt, removal>>

\* ------------------------------------------------------- log_broadcaster
\* The exceptions of this model that derive from Exception.
ExceptionClasses ==
    {"RuntimeError", "OSError", "KeyError", "WebSocketDisconnect", "QueueFull"}

\* What can be raised into the broadcaster's try body while it awaits get().
FaultKinds == {"RuntimeError"}

\* A handler that names one exception class only.
BroadcasterCatchesNarrow(e) == e = "WebSocketDisconnect"

\* `except Exception as e` of log_broadcaster.
BroadcasterCatches(e) == e \in ExceptionClasses

\* gather without return_exceptions: the first failure is raised to the caller.
return_exceptions_default == FALSE

\* return_exceptions=True of the gather call.
return_exceptions == TRUE

RECURSIVE SetToSeq(_)
SetToSeq(S) ==
    IF S = {} THEN <<>>
    ELSE LET x == CHOOSE y \in S : \A z \in S : y <= z
         IN  <<x>> \o SetToSeq(S \ {x})

\* A comprehension that loses the first websocket the set yields.
SendCoroutinesSkipFirst(conns) ==
    IF conns = {} THEN <<>> ELSE Tail(SetToSeq(conns))

\* A comprehension over a list that still holds the websockets of the pass
\* before.
SendCoroutinesStale(conns) == SetToSeq(conns \cup snapshot)

\* [ws.send_text(log_entry) for ws in active_connections]: one coroutine per
\* member of the set as it is when the comprehension runs; gather starts them
\* all, so the order in which the set yields its members does not matter.
SendCoroutines(conns) == SetToSeq(conns)

\* The loop of log_broadcaster from get() to its next suspension, q being
\* the queue it finds. On an empty queue it suspends in get(). Otherwise
\* get() returns the oldest entry at once, the send_text coroutines are
\* created and scheduled in the same step, and the broadcaster suspends in
\* gather; with no coroutine to wait for the loop turns on and suspends in
\* get() on the drained queue.
Loop(q) ==
    IF q = <<>>
    THEN /\ pc' = "get"
         /\ log_queue' = q
         /\ missed' = FALSE
         /\ UNCHANGED <<cur, send, snapshot, attempts, lastAttempt>>
    ELSE LET coros == SendCoroutines(active_connections)
             g == IF coros = <<>> THEN Drain(q) ELSE get(q)
             called(ws) == {i \in DOMAIN coros : coros[i] = ws}
         IN  /\ cur' = g.item
             /\ log_queue' = g.queue
             /\ snapshot' = active_connections
             /\ attempts' = [ws \in WebSockets |-> Cardinality(called(ws))]
             /\ send' = [ws \in WebSockets |->
                            IF called(ws) # {} THEN "pending" ELSE "none"]
             /\ lastAttempt' = [ws \in WebSockets |->
                                   IF called(ws) # {} THEN g.item.id
                                   ELSE lastAttempt[ws]]
             /\ pc' = IF coros = <<>> THEN "get" ELSE "gather"
             /\ missed' = FALSE

\* The except clause of log_broadcaster with exception e: the error is
\* logged and the loop goes on; an exception the clause does not catch ends
\* the task.
BroadcasterExcept(e) ==
    IF BroadcasterCatches(e)
    THEN LET r == emit(log_queue, BroadcasterErrorRecord(e), emits + 1) IN
         /\ emits' = emits + 1
         /\ last_emit' = [text |-> format(BroadcasterErrorRecord(e)),
                          outcome |-> r.outcome]
         /\ Loop(r.queue)
    ELSE /\ pc' = "dead"
         /\ UNCHANGED <<log_queue, emits, last_emit, cur, send, snapshot,
                        attempts, lastAttempt, missed>>

\* put_nowait has woken the broadcaster suspended in get(): it resumes.
Dequeue ==
    /\ pc = "get"
    /\ log_queue # <<>>
    /\ ~missed
    /\ Loop(log_queue)
    /\ UNCHANGED <<active_connections, conn, emits, faults, last_emit, removal>>

\* An unexpected exception is raised while the broadcaster awaits get(): no
\* entry is taken and the except clause handles it.
LoopFault(e) ==
    /\ pc = "get"
    /\ faults < MaxFaults
    /\ HasBudget
    /\ faults' = faults + 1
    /\ BroadcasterExcept(e)
    /\ UNCHANGED <<active_connections, conn, removal>>

\* ws.send_text(cur) completes: the line has reached the client, which then
\* holds cur for as long as send[ws] = "ok".
SendOk(ws) ==
    /\ pc = "gather"
    /\ send[ws] = "pending"
    /\ conn[ws] = "Open"
    /\ send' = [send EXCEPT ![ws] = "ok"]
    /\ UNCHANGED <<log_queue, active_connections, pc, cur, conn, emits, faults,
                   missed, last_emit, snapshot, attempts, lastAttempt, removal>>

\* A broadcaster that deregisters the websocket whose send has failed.
SendFailDeregisters(ws) ==
    /\ pc = "gather"
    /\ send[ws] = "pending"
    /\ send' = [send EXCEPT ![ws] = "failed"]
    /\ active_connections' = active_connections \ {ws}
    /\ UNCHANGED <<log_queue, pc, cur, conn, emits, faults, missed, last_emit,
                   snapshot, attempts, lastAttempt, removal>>

\* ws.send_text(cur) raises (closed socket, write error). With
\* return_exceptions the exception becomes that task's result; without it
\* gather raises it into the broadcaster while the other sends go on.
SendFail(ws) ==
    /\ pc = "gather"
    /\ send[ws] = "pending"
    /\ IF return_exceptions
       THEN /\ send' = [send EXCEPT ![ws] = "failed"]
            /\ UNCHANGED <<log_queue, pc, cur, emits, missed, last_emit,
                           snapshot, attempts, lastAttempt>>
       ELSE BroadcasterExcept("RuntimeError")
    /\ UNCHANGED <<active_connections, conn, faults, removal>>

\* The client of ws stops reading: this send_text never completes.
SendStall(ws) ==
    /\ pc = "gather"
    /\ send[ws] = "pending"
    /\ conn[ws] = "Open"
    /\ send' = [send EXCEPT ![ws] = "stalled"]
    /\ UNCHANGED <<log_queue, active_connections, pc, cur, conn, emits, faults,
                   missed, last_emit, snapshot, attempts, lastAttempt, removal>>

\* A wait that returns as soon as one task is done (FIRST_COMPLETED).
gather_first_completed(tasks) ==
    \E ws \in WebSockets : tasks[ws] \in {"ok", "failed"}

\* await asyncio.gather(...) returns when every task it was given is done.
gather(tasks) ==
    \A ws \in WebSockets : tasks[ws] \in {"none", "ok", "failed"}

\* Every task of the gather is done: the await returns and the loop goes on.
GatherDone ==
    /\ pc = "gather"
    /\ gather(send)
    /\ Loop(log_queue)
    /\ UNCHANGED <<active_connections, conn, emits, faults, last_emit, removal>>

\* --------------------------------------------------- websocket_endpoint
\* What receive_text raises: WebSocketDisconnect when the client closes,
\* KeyError when the client sends a binary frame (the message has no "text").
ReceiveErrors == {"WebSocketDisconnect", "KeyError"}

\* `except WebSocketDisconnect` of websocket_endpoint.
HandlerCatches(exc) == exc = "WebSocketDisconnect"

\* A deregistration that empties the set (set.clear).
remove_clear(conns, ws) ==
    [set |-> {}, raised |-> FALSE]

\* set.remove: raises KeyError when the member is absent.
remove(conns, ws) ==
    [set |-> conns \ {ws}, raised |-> ws \notin conns]

\* A handler that logs the connection, then awaits accept(), and registers
\* the websocket only when accept() has returned.
ConnectLogsFirst(ws) ==
    \/ /\ conn[ws] = "Connecting"
       /\ \A other \in WebSockets : other < ws => conn[other] # "Connecting"
       /\ HasBudget
       /\ conn' = [conn EXCEPT ![ws] = "Accepting"]
       /\ EmitOn(log_queue, ConnectedRecord)
       /\ UNCHANGED <<active_connections, pc, cur, send, faults, snapshot,
                      attempts, lastAttempt, removal>>
    \/ /\ conn[ws] = "Accepting"
       /\ conn' = [conn EXCEPT ![ws] = "Open"]
       /\ active_connections' = active_connections \cup {ws}
       /\ UNCHANGED <<log_queue, pc, cur, send, emits, faults, missed,
                      last_emit, snapshot, attempts, lastAttempt, removal>>

\* accept() returns; the websocket is registered and the connection logged
\* without an await in between. Websockets connect in the order of their
\* numbers.
Connect(ws) ==
    /\ conn[ws] = "Connecting"
    /\ \A other \in WebSockets : other < ws => conn[other] # "Connecting"
    /\ HasBudget
    /\ conn' = [conn EXCEPT ![ws] = "Open"]
    /\ active_connections' = active_connections \cup {ws}
    /\ EmitOn(log_queue, ConnectedRecord)
    /\ UNCHANGED <<pc, cur, send, faults, snapshot, attempts,
                   lastAttempt, removal>>

\* receive_text raises exc and the handler ends: a WebSocketDisconnect is
\* caught, the websocket deregistered and the disconnect logged; any other
\* exception leaves websocket_endpoint through no except clause.
Close(ws, exc) ==
    /\ conn[ws] = "Open"
    /\ HandlerCatches(exc) => HasBudget
    /\ conn' = [conn EXCEPT ![ws] = "Closed"]
    /\ IF HandlerCatches(exc)
       THEN LET r == remove(active_connections, ws) IN
            /\ active_connections' = r.set
            /\ removal' = [ws |-> ws, raised |-> r.raised]
            /\ IF r.raised
               THEN UNCHANGED <<log_queue, emits, last_emit, missed>>
               ELSE EmitOn(log_queue, DisconnectedRecord)
       ELSE UNCHANGED <<active_connections, log_queue, emits, last_emit,
                        missed, removal>>
    /\ UNCHANGED <<pc, cur, send, faults, snapshot, attempts,
                   lastAttempt>>

\* ---------------------------------------------------------- specification
Next ==
    \/ \E record \in RouterRecords : RouterLog(record)
    \/ \E record \in AccessRecords : AccessLog(record)
    \/ health_check
    \/ Dequeue
    \/ \E e \in FaultKinds : LoopFault(e)
    \/ \E ws \in WebSockets : SendOk(ws)
    \/ \E ws \in WebSockets : SendFail(ws)
    \/ \E ws \in WebSockets : SendStall(ws)
    \/ GatherDone
    \/ \E ws \in WebSockets : Connect(ws)
    \/ \E ws \in WebSockets, exc \in ReceiveErrors : Close(ws, exc)

Spec == Init /\ [][Next]_vars

\* The event loop runs every task that is ready: the broadcaster resumes
\* when get() or gather can return. A send_text that is neither stalled
\* nor done completes or fails.
Fairness ==
    /\ WF_vars(Dequeue)
    /\ WF_vars(GatherDone)
    /\ \A ws \in WebSockets : WF_vars(SendOk(ws) \/ SendFail(ws))

FairSpec == Spec /\ Fairness

\* ------------------------------------------- producers on other threads
\* asyncio.Queue is not thread-safe. A put_nowait made on a thread other
\* than the event loop's races with the get() of the broadcaster: get() finds
\* the queue empty, the put appends its item and finds no getter to wake,
\* and get() then registers its getter and suspends, the item in the queue.
\* The race needs the broadcaster to be going to sleep on the empty queue q;
\* the set holds the values of missed the put can leave.
ThreadPutMisses(q, at) ==
    IF at = "get" /\ q = <<>> THEN {FALSE, TRUE} ELSE {FALSE}

\* A route that runs in the thread pool logs a record.
ThreadLog(record) ==
    /\ HasBudget
    /\ LET r == emit(log_queue, record, emits + 1) IN
       /\ log_queue' = r.queue
       /\ emits' = emits + 1
       /\ last_emit' = [text |-> format(record), outcome |-> r.outcome]
       /\ IF r.outcome = "enqueued"
          THEN missed' \in ThreadPutMisses(log_queue, pc)
          ELSE missed' = missed
    /\ UNCHANGED <<active_connections, pc, cur, send, conn, faults, snapshot,
                   attempts, lastAttempt, removal>>

ThreadNext ==
    \/ Next
    \/ \E record \in RouterRecords : ThreadLog(record)

ThreadSpec == Init /\ [][ThreadNext]_vars

ThreadFairSpec == ThreadSpec /\ Fairness

\* ------------------------------------------------- the registry by itself
\* The websocket objects a registry can be asked about.
Handles == 1..MaxHandles

\* The registry holding any set of websockets, nothing else going on.
RemoveInit ==
    /\ active_connections \in SUBSET Handles
    /\ removal = [ws |-> 0, raised |-> FALSE]
    /\ log_queue = <<>>
    /\ pc = "get"
    /\ cur = Drain(StartupQueue).item
    /\ send = [ws \in WebSockets |-> "none"]
    /\ conn = [ws \in WebSockets |-> "Connecting"]
    /\ emits = Len(StartupQueue)
    /\ faults = 0
    /\ missed = FALSE
    /\ last_emit = [text |-> format(BroadcasterStartedRecord),
                    outcome |-> "enqueued"]
    /\ snapshot = {}
    /\ attempts = [ws \in WebSockets |-> 0]
    /\ lastAttempt = [ws \in WebSockets |-> 0]

\* active_connections.remove(ws) is called, ws registered or not.
RemoveCall(ws) ==
    LET r == remove(active_connections, ws) IN
    /\ active_connections' = r.set
    /\ removal' = [ws |-> ws, raised |-> r.raised]
    /\ UNCHANGED <<log_queue, pc, cur, send, conn, emits, faults, missed,
                   last_emit, snapshot, attempts, lastAttempt>>

RemoveNext == \E ws \in Handles : RemoveCall(ws)

RemoveSpec == RemoveInit /\ [][RemoveNext]_vars

\* ------------------------------------------------------------ properties
\* The ids of the entries enqueued after startup.
EntryIds == (Len(StartupQueue) + 1)..(Len(StartupQueue) + MaxEmits)

InQueue(id) == \E i \in DOMAIN log_queue : log_queue[i].id = id

\* ws holds the entry e: the send of the current pass to ws completed.
Received(ws, e) == cur = e /\ send[ws] = "ok"

\* C1. FIFO delivery: entries carry the number of their emit call, so a
\* smaller id is an earlier enqueue. The queue holds its entries in enqueue
\* order, all of them enqueued after the entry in hand, and every send
\* attempted to a websocket is for an entry enqueued after everything that
\* was attempted to that websocket before.
C1_FifoDelivery ==
    /\ [](/\ \A i, j \in DOMAIN log_queue :
                i < j => log_queue[i].id < log_queue[j].id
          /\ \A i \in DOMAIN log_queue : cur.id < log_queue[i].id
          /\ \A ws \in WebSockets : lastAttempt[ws] <= cur.id)
    /\ [][\A ws \in WebSockets :
            lastAttempt'[ws] # lastAttempt[ws] =>
                /\ lastAttempt'[ws] > lastAttempt[ws]
                /\ lastAttempt'[ws] = cur'.id
                /\ send'[ws] = "pending"]_vars

\* Websocket 1 connected and 'hello' was logged after that, with no other
\* emit call since startup: the connect line was sent to the websocket in an
\* earlier pass and 'hello', enqueued after it, is being sent to it now.
C1_Witness ==
    /\ emits = Len(StartupQueue) + 2
    /\ conn[1] = "Open"
    /\ \A ws \in WebSockets \ {1} : conn[ws] = "Connecting"
    /\ pc = "gather"
    /\ cur = [id |-> emits, text |-> format(HelloRecord)]
    /\ send[1] = "pending"
    /\ lastAttempt[1] = cur.id

\* C2. At-least-attempted delivery: in every pass, a websocket that was in
\* the registry when the entry was dequeued has exactly one send_text call
\* for the entry and a websocket that was not has none, whatever happens to
\* the registry while the pass is in flight.
C2_ExactlyOneAttempt ==
    \A ws \in WebSockets :
        /\ attempts[ws] = IF ws \in snapshot THEN 1 ELSE 0
        /\ ws \in snapshot <=> send[ws] # "none"

\* A pass is in flight and the registry has both lost and gained a member
\* since the entry was dequeued.
C2_Witness ==
    /\ pc = "gather"
    /\ \E ws \in snapshot : ws \notin active_connections /\ attempts[ws] = 1
    /\ \E ws \in active_connections : ws \notin snapshot /\ attempts[ws] = 0

\* C3. Fault isolation: while a send of the pass is pending the broadcaster
\* stays in the pass with the same entry and the send is not dropped; and a
\* step in which the send to s1 fails leaves every other send of the pass as
\* it was and changes neither the queue, nor what the producers see of emit,
\* nor the registry.
C3_FaultIsolation ==
    [][/\ \A ws \in WebSockets :
            send[ws] = "pending" =>
                cur' = cur /\ pc' = "gather" /\ send'[ws] # "none"
       /\ \A s1 \in WebSockets :
            (send[s1] = "pending" /\ send'[s1] = "failed") =>
                /\ \A s2 \in WebSockets \ {s1} : send'[s2] = send[s2]
                /\ log_queue' = log_queue
                /\ emits' = emits
                /\ last_emit' = last_emit
                /\ active_connections' = active_connections]_vars

\* In one pass the send to s1 has failed and the send to s2 has completed.
C3_Witness ==
    \E s1, s2 \in WebSockets :
        /\ s1 # s2
        /\ {s1, s2} \subseteq snapshot
        /\ send[s1] = "failed"
        /\ send[s2] = "ok"

\* C4. A send that never completes does not stall the others: when the send
\* to s1 never completes, an entry in the queue is still taken by the
\* broadcaster for a websocket s2 that stays registered.
C4_NoStall ==
    \A s2 \in WebSockets : \A id \in EntryIds :
        []((/\ \E s1 \in WebSockets \ {s2} : send[s1] = "stalled"
            /\ s2 \in active_connections
            /\ InQueue(id))
           => <>(cur.id = id \/ s2 \notin active_connections))

\* C5. Health-check traffic is suppressed: no line with the health-check
\* marker is in the queue or in the broadcaster's hands, so none is received.
C5_HealthSuppressed ==
    /\ \A i \in DOMAIN log_queue : ~Contains(HealthMarker, log_queue[i].text)
    /\ ~Contains(HealthMarker, cur.text)
    /\ \A ws \in WebSockets :
          ~(Received(ws, cur) /\ Contains(HealthMarker, cur.text))

\* The markers C6 lists: favicon, proxy trace and credential refresh.
C6_HasMarker(line) ==
    \/ Contains(<<"favicon.ico">>, line)
    \/ Contains(<<"Gemini proxy request: path=">>, line)
    \/ Contains(<<"credentials expired, attempting refresh">>, line)
    \/ Contains(<<"credentials refreshed successfully">>, line)
    \/ Contains(<<"Converted environment expiry format">>, line)

\* entry was appended once to q: qnext is what is left of Append(q, entry)
\* after the broadcaster took entries from its head, and the broadcaster
\* holds entry in hand if it took them all.
C6_AppendedOnce(q, entry, qnext, hand) ==
    \E taken \in 0..(Len(q) + 1) :
        /\ qnext = SubSeq(Append(q, entry), taken + 1, Len(q) + 1)
        /\ taken = Len(q) + 1 => hand = entry

\* C6. Record Filter forwarding: no entry of the queue contains a marker; an
\* emit call of a line with a marker leaves the queue unchanged; an emit call
\* of a line with no marker at all appends the line, as emit was given it and
\* tagged with the number of the call, once to the tail of the queue.
C6_FilterForwarding ==
    /\ [](\A i \in DOMAIN log_queue : ~C6_HasMarker(log_queue[i].text))
    /\ [][emits' = emits + 1 =>
            LET line == last_emit'.text
                entry == [id |-> emits', text |-> line]
            IN  /\ C6_HasMarker(line) =>
                    /\ last_emit'.outcome = "filtered"
                    /\ log_queue' = log_queue
                /\ (~C6_HasMarker(line) /\ ~Contains(HealthMarker, line)) =>
                    /\ last_emit'.outcome = "enqueued"
                    /\ C6_AppendedOnce(log_queue, entry, log_queue', cur')
                    /\ faults' = faults => log_queue' = Append(log_queue, entry)]_vars

\* A websocket has received the 'client connected' line as it was formatted,
\* and the favicon line logged after that was filtered.
C6_Witness ==
    /\ \E ws \in WebSockets :
          /\ send[ws] = "ok"
          /\ cur.text = format(ConnectedRecord)
          /\ attempts[ws] = 1
    /\ last_emit.outcome = "filtered"
    /\ Contains(FaviconMarker, last_emit.text)
    /\ log_queue = <<>>

\* C7. Lifecycle deregistration: the registry contains only websockets whose
\* handler is still Open.
C7_RegistryOnlyOpen ==
    \A ws \in active_connections : conn[ws] = "Open"

\* C8. The broadcaster never terminates: it is suspended in get() or in
\* gather in every state, and an entry in the queue is taken from it unless
\* a send of the pass in flight never completes.
C8_BroadcasterLives ==
    /\ [](pc \in {"get", "gather"})
    /\ \A id \in EntryIds :
          [](InQueue(id) =>
                <>(~InQueue(id) \/ \E ws \in WebSockets : send[ws] = "stalled"))

\* The handler of websocket a has ended and the send to a has failed; after
\* a loop fault the broadcaster has sent the line of the fault to websocket b.
C8_Witness ==
    /\ faults > 0
    /\ \E a, b \in WebSockets :
          /\ a # b
          /\ conn[a] = "Closed"
          /\ send[a] = "failed"
          /\ send[b] = "ok"
          /\ cur.text = format(BroadcasterErrorRecord("RuntimeError"))

\* C9. Bounded ingestion queue: the queue never holds more entries than the
\* capacity it was created with.
C9_QueueBounded ==
    Len(log_queue) <= maxsize

C11_RegistryRaceSafety ==
    /\ [][\A ws \in WebSockets :
            (/\ pc = "gather"
             /\ ws \in snapshot
             /\ removal'.ws = ws
             /\ removal.ws # ws) =>
                /\ removal'.raised = FALSE
                /\ conn'[ws] = "Closed"
                /\ emits' = emits + 1
                /\ last_emit'.text = format(DisconnectedRecord)
                /\ ws \in active_connections
                /\ active_connections' = active_connections \ {ws}
                /\ pc' = "gather"
                /\ cur' = cur
                /\ send' = send
                /\ faults' = faults]_vars
    /\ [][cur' # cur =>
            \A ws \in WebSockets :
                (removal.ws = ws /\ ~removal.raised) =>
                    /\ ws \notin snapshot'
                    /\ send'[ws] = "none"]_vars
    /\ \A ws \in WebSockets :
          [](/\ pc = "gather"
             /\ send[ws] = "pending"
             /\ removal.ws = ws
             => <>(send[ws] # "pending"))

\* Websocket a was deregistered during the pass that includes it: its send
\* has failed, websocket b is still registered and has received the entry.
C11_Witness ==
    /\ pc = "gather"
    /\ \E a, b \in WebSockets :
          /\ a # b
          /\ {a, b} \subseteq snapshot
          /\ removal = [ws |-> a, raised |-> FALSE]
          /\ active_connections = {b}
          /\ send[a] = "failed"
          /\ send[b] = "ok"

C13_ConcurrentEnqueueSafe ==
    /\ [](/\ \A i, j \in DOMAIN log_queue :
                i < j => log_queue[i].id < log_queue[j].id
          /\ \A i \in DOMAIN log_queue : cur.id < log_queue[i].id)
    /\ \A id \in EntryIds :
          [](/\ pc = "get"
             /\ log_queue # <<>>
             /\ Head(log_queue).id = id
             => <>(~InQueue(id)))

\* C14. Batch barrier: the broadcaster takes an entry from the queue, and
\* with it a new entry in hand, only when no send of the pass before is
\* still running; every send that is running is a send of the one entry in
\* hand, made while the broadcaster waits in its gather.
C14_BatchBarrier ==
    /\ [][(cur' # cur \/ Len(log_queue') < Len(log_queue)) =>
            \A ws \in WebSockets : send[ws] \in {"none", "ok", "failed"}]_vars
    /\ [](\A ws \in WebSockets :
            send[ws] \in {"pending", "stalled"} =>
                /\ pc = "gather"
                /\ lastAttempt[ws] = cur.id)

\* The pass of the entry in hand has one send done and one still running,
\* and the next entry waits in the queue.
C14_Witness ==
    /\ pc = "gather"
    /\ log_queue # <<>>
    /\ \E a, b \in WebSockets :
          /\ send[a] = "ok"
          /\ send[b] = "pending"
          /\ lastAttempt[a] = cur.id
          /\ lastAttempt[b] = cur.id

\* The entry a step has accepted, as a sequence: empty when the step made no
\* emit call or its line was not enqueued.
C15_Accepted(n, nnext, made) ==
    IF nnext = n + 1 /\ made.outcome = "enqueued"
    THEN <<[id |-> nnext, text |-> made.text]>>
    ELSE <<>>

\* C15. No loss or duplication in the queue: no id is twice in the queue and
\* every queued id is later than the entry in hand, so nothing that was
\* dequeued is queued again. A step changes the queue only by appending the
\* line it accepts and by taking entries from the front, the last one taken
\* becoming the entry in hand; no entry leaves the queue in any other way.
\* Every queued entry is taken from the queue unless a send never completes.
C15_NoLossNoDuplication ==
    /\ [](/\ \A i, j \in DOMAIN log_queue :
                i # j => log_queue[i].id # log_queue[j].id
          /\ \A i \in DOMAIN log_queue : log_queue[i].id > cur.id)
    /\ [][LET whole == log_queue \o C15_Accepted(emits, emits', last_emit')
          IN  \E k \in 0..Len(whole) :
                /\ log_queue' = SubSeq(whole, k + 1, Len(whole))
                /\ k = 0 => cur' = cur
                /\ k > 0 => cur' = whole[k] /\ pc # "dead"]_vars
    /\ \A id \in EntryIds :
          [](InQueue(id) =>
                <>(\/ ~InQueue(id) /\ cur.id >= id
                   \/ \E ws \in WebSockets : send[ws] = "stalled"))

\* An accepted line has been dequeued and is being sent while a later
\* accepted line waits behind it.
C15_Witness ==
    /\ pc = "gather"
    /\ cur.id \in EntryIds
    /\ last_emit.outcome = "enqueued"
    /\ log_queue = <<[id |-> emits, text |-> last_emit.text]>>
    /\ \E ws \in WebSockets : send[ws] = "ok"

\* C16. The broadcaster never changes the registry: a step in which the
\* broadcaster moves (its position, its entry in hand, a send or its fault
\* count changes) leaves active_connections as it was; a websocket leaves
\* the registry only in the step in which its own handler ends and calls
\* remove; and a websocket whose send has failed is registered for as long
\* as its handler runs.
C16_BroadcasterKeepsRegistry ==
    /\ [][(pc' # pc \/ cur' # cur \/ send' # send \/ faults' # faults) =>
            active_connections' = active_connections]_vars
    /\ [][\A ws \in WebSockets :
            (ws \in active_connections /\ ws \notin active_connections') =>
                /\ conn[ws] = "Open"
                /\ conn'[ws] = "Closed"
                /\ removal' = [ws |-> ws, raised |-> FALSE]]_vars
    /\ [](\A ws \in WebSockets :
            (send[ws] = "failed" /\ conn[ws] = "Open") =>
                ws \in active_connections)

\* The send to websocket a has failed and the send to websocket b has
\* completed: a is registered as before, its handler still running.
C16_Witness ==
    \E a, b \in WebSockets :
        /\ send[a] = "failed"
        /\ send[b] = "ok"
        /\ conn[a] = "Open"
        /\ active_connections = {a, b}
        /\ snapshot = {a, b}

\* C17. No replay: an entry that becomes the entry in hand is later than the
\* one before and is no longer in the queue; its sends are created in that
\* step, one to each websocket registered then and to no other; while it
\* stays in hand no further send is started, so a websocket registered
\* after the dequeue gets none; and an entry taken while no websocket is
\* registered is sent to nobody, the broadcaster going back to get().
C17_NoReplay ==
    /\ [][cur' # cur =>
            /\ cur'.id > cur.id
            /\ \A i \in DOMAIN log_queue' : log_queue'[i].id > cur'.id
            /\ snapshot' = active_connections
            /\ \A ws \in WebSockets :
                  /\ send'[ws] = IF ws \in active_connections
                                 THEN "pending" ELSE "none"
                  /\ lastAttempt'[ws] = IF ws \in active_connections
                                        THEN cur'.id ELSE lastAttempt[ws]
            /\ active_connections = {} => pc' = "get"]_vars
    /\ [][cur' = cur =>
            \A ws \in WebSockets :
                /\ lastAttempt'[ws] = lastAttempt[ws]
                /\ send[ws] = "none" => send'[ws] = "none"]_vars

\* Websocket b registered after the entry in hand was dequeued: the entry
\* has reached websocket a, and b, registered, has been sent nothing.
C17_Witness ==
    /\ pc = "gather"
    /\ \E a, b \in WebSockets :
          /\ snapshot = {a}
          /\ active_connections = {a, b}
          /\ send[a] = "ok"
          /\ send[b] = "none"
          /\ lastAttempt[b] = 0
          /\ lastAttempt[a] = cur.id

\* C18. No sends after deregistration: the handler that deregisters its
\* websocket enqueues its 'client disconnected' line in the same step, the
\* websocket already out of the registry and the line later than every
\* entry sent to it; and from then on no send to that websocket is started:
\* the latest entry sent to it stays what it was, and its send of the pass
\* that was in flight can only end or be cleared.
C18_NoSendAfterDeregistration ==
    /\ [][\A ws \in WebSockets :
            (removal'.ws = ws /\ removal.ws # ws /\ ~removal'.raised) =>
                /\ conn'[ws] = "Closed"
                /\ ws \notin active_connections'
                /\ log_queue' = Append(log_queue,
                                       [id |-> emits',
                                        text |-> format(DisconnectedRecord)])
                /\ lastAttempt'[ws] < emits']_vars
    /\ [][\A ws \in WebSockets :
            (conn[ws] = "Closed" /\ ws \notin active_connections) =>
                /\ ws \notin active_connections'
                /\ lastAttempt'[ws] = lastAttempt[ws]
                /\ send'[ws] \in {send[ws], "failed", "none"}]_vars

\* Websocket a has been deregistered and its 'client disconnected' line is
\* the entry in hand: it is being sent to websocket b and not to a.
C18_Witness ==
    /\ pc = "gather"
    /\ cur.text = format(DisconnectedRecord)
    /\ \E a, b \in WebSockets :
          /\ removal = [ws |-> a, raised |-> FALSE]
          /\ conn[b] = "Open"
          /\ snapshot = {b}
          /\ send[a] = "none"
          /\ send[b] = "pending"
          /\ lastAttempt[a] # 0
          /\ lastAttempt[a] < cur.id

\* C19. Registration precedes the connect announcement: the step that
\* enqueues a 'client connected' line is the step in which a handler
\* registers its websocket, and the line goes to the back of the queue with
\* the websocket registered; a registered websocket that has been sent
\* nothing yet still has a 'client connected' line waiting in the queue;
\* and when a 'client connected' line becomes the entry in hand, a send of
\* it is started to every websocket registered then.
C19_RegisteredBeforeAnnounced ==
    /\ [][(emits' = emits + 1 /\ last_emit'.text = format(ConnectedRecord)) =>
            \E ws \in WebSockets :
                /\ conn[ws] = "Connecting"
                /\ conn'[ws] = "Open"
                /\ ws \notin active_connections
                /\ active_connections' = active_connections \cup {ws}
                /\ log_queue' = Append(log_queue,
                                       [id |-> emits',
                                        text |-> format(ConnectedRecord)])]_vars
    /\ [](\A ws \in active_connections :
            lastAttempt[ws] = 0 =>
                \E i \in DOMAIN log_queue :
                    log_queue[i].text = format(ConnectedRecord))
    /\ [][(cur' # cur /\ cur'.text = format(ConnectedRecord)) =>
            \A ws \in active_connections :
                /\ ws \in snapshot'
                /\ send'[ws] = "pending"
                /\ lastAttempt'[ws] = cur'.id]_vars

\* Websocket a is the only one that has connected: the 'client connected'
\* line in hand is its own and has been sent to it.
C19_Witness ==
    /\ cur.text = format(ConnectedRecord)
    /\ \E a \in WebSockets :
          /\ conn[a] = "Open"
          /\ \A b \in WebSockets \ {a} : conn[b] = "Connecting"
          /\ snapshot = {a}
          /\ send[a] = "ok"
          /\ lastAttempt[a] = cur.id

====
